---- MODULE Spec2Model ----
(***************************************************************************)
(* The two backend providers of the benchmark (postgres.FuncProvider and   *)
(* mongo.FuncProvider) driven by a pool of workers that share one          *)
(* identifier generator and one backend.                                    *)
(*                                                                         *)
(* The backend is a sequence of rows/documents.  A backend request is      *)
(* atomic: it is either applied and answered, answered with an error and   *)
(* not applied, or never answered.  The identifier generator (package      *)
(* idgen), the record template (package record) and the worker loop are    *)
(* not part of the provider sources; they are modelled from the            *)
(* specification.  Identifiers are uint64 in the code; the bounds keep     *)
(* every value far below 2^64, so no wrap-around is reachable.             *)
(***************************************************************************)
EXTENDS Integers, Sequences, FiniteSets, TLC

\* Bound: the global operation budget shared by the workers.
MaxOps == 3

Workers == {"w1", "w2"}

Providers == {"postgres", "mongo"}

OpKinds ==
    {"InsertRecord", "UpdateRecord", "ReadRecord", "ReadRange", "ReadMostRecentRecord"}

\* Values Randomise can draw for the age field: one outside and one inside
\* the range of ReadRange.
Ages == {0, 60}

\* The balance field holds "drawn", the value Randomise gave it, or
\* "updated", a value UpdateRecord wrote.
Balances == {"drawn", "updated"}

\* Bounds of the range query on the age field (both exclusive).
AgeLow == 45

AgeHigh == 75

\* The zero-valued record template a worker starts with.
ZeroPerson == [id |-> 0, age |-> 0, balance |-> "drawn"]

\* Backend contents a run can start from: empty, one entity with identifier
\* 0, or two entities with identifiers 1 and 2.
InitialRows ==
    { <<>>,
      <<[id |-> 0, age |-> 60, balance |-> "drawn"]>>,
      <<[id |-> 1, age |-> 60, balance |-> "drawn"], [id |-> 2, age |-> 0, balance |-> "drawn"]>> }

VARIABLES
    provider,     \* which FuncProvider the run uses
    rows,         \* the table / collection: a sequence of persisted entities
    genID,        \* the generator's counter (high-water mark)
    budget,       \* operations the workers may still start
    pc,           \* per worker: position inside the current operation
    op,           \* per worker: the operation being executed ("none" before the
                  \* first call, "returned" between two calls)
    data,         \* per worker: the record template (*record.Person)
    recordID,     \* per worker: the local recordID
    ret,          \* per worker: the boolean returned (meaningful when pc = "ret")
    cursor,       \* per worker: result set of ReadRange: [left, err]
    obs,          \* per worker: what the current call has done so far: GetNew
                  \* invocations, backend requests issued, entities written,
                  \* rows matched by the update, rows scanned, the identifier
                  \* fetched, the error met, whether GetExisting met an
                  \* empty population
    maxID,        \* the last result of GetMaxID: [val, err]
    rows0,        \* the backend contents at startup
    hwm0,         \* the generator's counter at startup
    insertCalls,  \* number of InsertRecord calls started
    issued        \* number of GetNew invocations

vars ==
    <<provider, rows, genID, budget, pc, op, data, recordID, ret, cursor, obs,
      maxID, rows0, hwm0, insertCalls, issued>>

NoObs ==
    [newCalls |-> 0, wrote |-> 0, matched |-> 0, emptyPop |-> FALSE,
     fault |-> "none", fetched |-> -1, scanned |-> 0, requests |-> 0]

NoCursor == [left |-> 0, err |-> FALSE]

-----------------------------------------------------------------------------
(* Pure helpers over the backend contents *)

IdsOf(rs) == {rs[i].id : i \in DOMAIN rs}

\* Fault variant of MaxIdOf: the sort runs ascending and delivers the
\* smallest identifier.
MinIdOf(rs) == CHOOSE m \in IdsOf(rs) : \A n \in IdsOf(rs) : m =< n

MaxIdOf(rs) == CHOOSE m \in IdsOf(rs) : \A n \in IdsOf(rs) : n =< m

Matches(rs, id) == {i \in DOMAIN rs : rs[i].id = id}

FirstMatch(rs, id) == CHOOSE i \in Matches(rs, id) : \A j \in Matches(rs, id) : i =< j

\* ORDER BY id DESC LIMIT 1 / sort {_id: -1}: a row holding the maximum id.
MostRecentRow(rs) == rs[CHOOSE i \in DOMAIN rs : rs[i].id = MaxIdOf(rs)]

\* WHERE age > 45 AND age < 75 / {age: {$gt: 45, $lt: 75}}
InRange(rs) == {i \in DOMAIN rs : rs[i].age > AgeLow /\ rs[i].age < AgeHigh}

-----------------------------------------------------------------------------
(* Identifier generator, modelled from the specification *)

\* GetNew atomically increments the counter and returns the new value.
GetNew(g) == g + 1

\* GetExisting samples [1, high-water mark].  On an empty population it
\* fails; its single uint64 result leaves a Go caller only two outcomes, a
\* panic or a returned value that names no issued identifier.
GetExisting(g) ==
    IF g = 0
    THEN {[kind |-> "panic", id |-> 0], [kind |-> "value", id |-> 0]}
    ELSE {[kind |-> "value", id |-> i] : i \in 1..g}

-----------------------------------------------------------------------------
(* The backends' write and lookup semantics *)

\* INSERT INTO t (data) VALUES ($1): the statement appends a row.
PgExecInsert(rs, rec) == [err |-> FALSE, rows |-> Append(rs, rec)]

\* InsertOne: _id is the collection's unique key, a duplicate is an error.
MongoInsertOne(rs, rec) ==
    IF Matches(rs, rec.id) # {}
    THEN [err |-> TRUE, rows |-> rs]
    ELSE [err |-> FALSE, rows |-> Append(rs, rec)]

\* UPDATE t SET data = jsonb_set(data, '{balance}', $1) WHERE data->'id' = $2:
\* every matching row gets the balance; no match is not an error.
PgExecUpdate(rs, id, b) ==
    [rows |-> [i \in DOMAIN rs |->
                 IF rs[i].id = id THEN [rs[i] EXCEPT !.balance = b] ELSE rs[i]],
     matched |-> Cardinality(Matches(rs, id))]

\* Fault variant of MongoUpdateOne: the update runs as an upsert and
\* inserts a document when none matches.
MongoUpdateOneUpsert(rs, id, b) ==
    IF Matches(rs, id) = {}
    THEN [rows |-> Append(rs, [id |-> id, age |-> 0, balance |-> b]), matched |-> 0]
    ELSE [rows |-> [rs EXCEPT ![FirstMatch(rs, id)].balance = b], matched |-> 1]

\* UpdateOne({_id: id}, {$set: {balance: b}}): the first match gets the
\* balance; no match is not an error.
MongoUpdateOne(rs, id, b) ==
    IF Matches(rs, id) = {}
    THEN [rows |-> rs, matched |-> 0]
    ELSE [rows |-> [rs EXCEPT ![FirstMatch(rs, id)].balance = b], matched |-> 1]

\* Whether the context handed to the backend call carries a deadline:
\* context.WithTimeout(..., 10s) in mongo, context.Background() in postgres.
CtxHasDeadline(p) == p = "mongo"

\* GetMaxID of the postgres provider.
PgGetMaxID(rs, reachable) ==
    IF ~reachable \/ rs = <<>>
    THEN [val |-> 0, err |-> TRUE]
    ELSE IF MaxIdOf(rs) = 0
         THEN [val |-> 0, err |-> TRUE]
         ELSE [val |-> MaxIdOf(rs), err |-> FALSE]

\* GetMaxID of the mongo provider.
MongoGetMaxID(rs, reachable) ==
    IF ~reachable \/ rs = <<>>
    THEN [val |-> 0, err |-> TRUE]
    ELSE [val |-> MaxIdOf(rs), err |-> FALSE]

GetMaxID(p, rs, reachable) ==
    IF p = "postgres" THEN PgGetMaxID(rs, reachable) ELSE MongoGetMaxID(rs, reachable)

-----------------------------------------------------------------------------
(* Initial state *)

TypeOK ==
    /\ provider \in Providers
    /\ budget \in 0..MaxOps
    /\ genID \in Nat
    /\ \A w \in Workers :
        /\ pc[w] \in {"idle", "exec", "iter", "ret", "panicked"}
        /\ op[w] \in OpKinds \cup {"none", "returned"}
        /\ ret[w] \in BOOLEAN
        /\ data[w].age \in Ages \cup {0}
    /\ \A i \in DOMAIN rows : rows[i].balance \in Balances

Init ==
    /\ provider \in Providers
    /\ rows \in InitialRows
    /\ rows0 = rows
    /\ maxID = GetMaxID(provider, rows, TRUE)
    /\ genID = IF maxID.err THEN 0 ELSE maxID.val
    /\ hwm0 = genID
    /\ budget = MaxOps
    /\ pc = [w \in Workers |-> "idle"]
    /\ op = [w \in Workers |-> "none"]
    /\ data = [w \in Workers |-> ZeroPerson]
    /\ recordID = [w \in Workers |-> 0]
    /\ ret = [w \in Workers |-> FALSE]
    /\ cursor = [w \in Workers |-> NoCursor]
    /\ obs = [w \in Workers |-> NoObs]
    /\ insertCalls = 0
    /\ issued = 0

\* An unrecovered panic in one goroutine ends the process.
Crashed == \E w \in Workers : pc[w] = "panicked"

-----------------------------------------------------------------------------
(* The worker loop.  A worker takes one unit of the operation budget and    *)
(* calls an operation; the call runs up to its backend request, which the  *)
(* backend answers in a later step (or never).                             *)

\* Entering operation o with one unit of the budget.
Enter(w, o) ==
    /\ ~Crashed
    /\ pc[w] = "idle"
    /\ budget > 0
    /\ budget' = budget - 1
    /\ op' = [op EXCEPT ![w] = o]

\* The operation has returned its boolean; the worker records it and loops.
Return(w) ==
    /\ ~Crashed
    /\ pc[w] = "ret"
    /\ pc' = [pc EXCEPT ![w] = "idle"]
    /\ op' = [op EXCEPT ![w] = "returned"]
    /\ ret' = [ret EXCEPT ![w] = FALSE]
    /\ recordID' = [recordID EXCEPT ![w] = 0]
    /\ cursor' = [cursor EXCEPT ![w] = NoCursor]
    /\ obs' = [obs EXCEPT ![w] = NoObs]
    /\ UNCHANGED <<provider, rows, genID, budget, data, maxID, rows0, hwm0,
                   insertCalls, issued>>

\* The deadline of the call's context expires while the backend has not
\* answered: the driver call returns an error, the operation returns false.
Timeout(w) ==
    /\ ~Crashed
    /\ pc[w] = "exec"
    /\ CtxHasDeadline(provider)
    /\ pc' = [pc EXCEPT ![w] = "ret"]
    /\ ret' = [ret EXCEPT ![w] = FALSE]
    /\ obs' = [obs EXCEPT ![w].fault = "timeout"]
    /\ UNCHANGED <<provider, rows, genID, budget, op, data, recordID, cursor, maxID,
                   rows0, hwm0, insertCalls, issued>>

-----------------------------------------------------------------------------
(* InsertRecord *)

\* Fault variant of InsertRecord: GetNew is called but its result is not
\* stored in data.ID, so the template's previous identifier is written.
InsertRecordStaleID(w) ==
    /\ Enter(w, "InsertRecord")
    /\ insertCalls' = insertCalls + 1
    /\ \E a \in Ages :
        data' = [data EXCEPT ![w] = [id |-> data[w].id, age |-> a, balance |-> "drawn"]]
    /\ genID' = GetNew(genID)
    /\ issued' = issued + 1
    /\ pc' = [pc EXCEPT ![w] = "exec"]
    /\ obs' = [obs EXCEPT ![w].newCalls = @ + 1, ![w].requests = @ + 1]
    /\ UNCHANGED <<provider, rows, recordID, ret, cursor, maxID, rows0, hwm0>>

\* data.Randomise(rnd); data.ID = id.GetNew(); then, in postgres,
\* jsonData, err := json.Marshal(data); if err != nil { panic(err) }.
\* The call stops at DB.Exec(INSERT ...) / Collection.InsertOne.
InsertRecord(w) ==
    /\ Enter(w, "InsertRecord")
    /\ insertCalls' = insertCalls + 1
    /\ \E a \in Ages :
        data' = [data EXCEPT ![w] = [id |-> GetNew(genID), age |-> a, balance |-> "drawn"]]
    /\ genID' = GetNew(genID)
    /\ issued' = issued + 1
    /\ \E marshalled \in IF provider = "postgres" THEN BOOLEAN ELSE {TRUE} :
        IF marshalled
        THEN /\ pc' = [pc EXCEPT ![w] = "exec"]
             /\ obs' = [obs EXCEPT ![w].newCalls = @ + 1, ![w].requests = @ + 1]
        ELSE /\ pc' = [pc EXCEPT ![w] = "panicked"]
             /\ obs' = [obs EXCEPT ![w].newCalls = @ + 1, ![w].fault = "marshal"]
    /\ UNCHANGED <<provider, rows, recordID, ret, cursor, maxID, rows0, hwm0>>

\* Fault variant of BackendInsert: the error of the backend call is logged
\* but the operation goes on to return true.
BackendInsertIgnoresErr(w) ==
    /\ ~Crashed
    /\ pc[w] = "exec"
    /\ op[w] = "InsertRecord"
    /\ \E backendErr \in BOOLEAN :
        LET res == IF backendErr THEN [err |-> TRUE, rows |-> rows]
                   ELSE IF provider = "postgres" THEN PgExecInsert(rows, data[w])
                   ELSE MongoInsertOne(rows, data[w])
        IN  /\ rows' = res.rows
            /\ ret' = [ret EXCEPT ![w] = TRUE]
            /\ obs' = [obs EXCEPT ![w].wrote = Len(res.rows) - Len(rows),
                                  ![w].fault = IF res.err THEN "backend" ELSE "none"]
    /\ pc' = [pc EXCEPT ![w] = "ret"]
    /\ UNCHANGED <<provider, genID, budget, op, data, recordID, cursor, maxID, rows0,
                   hwm0, insertCalls, issued>>

\* The backend answers the insert.
BackendInsert(w) ==
    /\ ~Crashed
    /\ pc[w] = "exec"
    /\ op[w] = "InsertRecord"
    /\ \E backendErr \in BOOLEAN :
        LET res == IF backendErr THEN [err |-> TRUE, rows |-> rows]
                   ELSE IF provider = "postgres" THEN PgExecInsert(rows, data[w])
                   ELSE MongoInsertOne(rows, data[w])
        IN  /\ rows' = res.rows
            /\ ret' = [ret EXCEPT ![w] = ~res.err]
            /\ obs' = [obs EXCEPT ![w].wrote = Len(res.rows) - Len(rows),
                                  ![w].fault = IF res.err THEN "backend" ELSE "none"]
    /\ pc' = [pc EXCEPT ![w] = "ret"]
    /\ UNCHANGED <<provider, genID, budget, op, data, recordID, cursor, maxID, rows0,
                   hwm0, insertCalls, issued>>

-----------------------------------------------------------------------------
(* UpdateRecord and ReadRecord open alike *)

\* recordID := id.GetExisting(); the result goes into the backend request
\* without any check.
SampleExisting(w) ==
    \E r \in GetExisting(genID) :
        IF r.kind = "panic"
        THEN /\ pc' = [pc EXCEPT ![w] = "panicked"]
             /\ obs' = [obs EXCEPT ![w].emptyPop = TRUE, ![w].fault = "emptypop"]
             /\ recordID' = recordID
        ELSE /\ pc' = [pc EXCEPT ![w] = "exec"]
             /\ obs' = [obs EXCEPT ![w].emptyPop = (genID = 0), ![w].requests = @ + 1]
             /\ recordID' = [recordID EXCEPT ![w] = r.id]

\* The call stops at DB.Exec(UPDATE ...) / Collection.UpdateOne.
UpdateRecord(w) ==
    /\ Enter(w, "UpdateRecord")
    /\ SampleExisting(w)
    /\ UNCHANGED <<provider, rows, genID, data, ret, cursor, maxID, rows0, hwm0,
                   insertCalls, issued>>

\* The backend answers the update.  Only err decides the result; the number
\* of rows matched is not read.
BackendUpdate(w) ==
    /\ ~Crashed
    /\ pc[w] = "exec"
    /\ op[w] = "UpdateRecord"
    /\ \E backendErr \in BOOLEAN :
        IF backendErr
        THEN /\ rows' = rows
             /\ ret' = [ret EXCEPT ![w] = FALSE]
             /\ obs' = [obs EXCEPT ![w].fault = "backend"]
        ELSE LET res == IF provider = "postgres"
                        THEN PgExecUpdate(rows, recordID[w], "updated")
                        ELSE MongoUpdateOne(rows, recordID[w], "updated")
             IN  /\ rows' = res.rows
                 /\ ret' = [ret EXCEPT ![w] = TRUE]
                 /\ obs' = [obs EXCEPT ![w].matched = res.matched]
    /\ pc' = [pc EXCEPT ![w] = "ret"]
    /\ UNCHANGED <<provider, genID, budget, op, data, recordID, cursor, maxID, rows0,
                   hwm0, insertCalls, issued>>

-----------------------------------------------------------------------------
(* ReadRecord and ReadMostRecentRecord *)

\* The call stops at DB.QueryRow(SELECT ... WHERE data->'id' = $1) /
\* Collection.FindOne({_id: recordID}).
ReadRecord(w) ==
    /\ Enter(w, "ReadRecord")
    /\ SampleExisting(w)
    /\ UNCHANGED <<provider, rows, genID, data, ret, cursor, maxID, rows0, hwm0,
                   insertCalls, issued>>

\* The call opens with DB.QueryRow(SELECT ... ORDER BY data->'id' DESC
\* LIMIT 1) / Collection.FindOne({}, sort {_id: -1}).
ReadMostRecentRecord(w) ==
    /\ Enter(w, "ReadMostRecentRecord")
    /\ pc' = [pc EXCEPT ![w] = "exec"]
    /\ obs' = [obs EXCEPT ![w].requests = @ + 1]
    /\ UNCHANGED <<provider, rows, genID, data, recordID, ret, cursor, maxID, rows0, hwm0,
                   insertCalls, issued>>

\* What a single-row lookup returns once the backend answers, for the set
\* found of candidate row indexes and the id of the row it delivers.
\* outcome "backend" is an error of the request, "decode" a failure of
\* Scan or json.Unmarshal (postgres) or of Decode (mongo); no row is
\* pgx.ErrNoRows / mongo.ErrNoDocuments.  Every error returns false.
SingleRowAnswer(w, found, id, outcome) ==
    LET fault == IF outcome = "backend" THEN "backend"
                 ELSE IF found = {} THEN "notfound"
                 ELSE IF outcome = "decode" THEN "decode"
                 ELSE "none"
    IN  /\ pc' = [pc EXCEPT ![w] = "ret"]
        /\ ret' = [ret EXCEPT ![w] = (fault = "none")]
        /\ obs' = [obs EXCEPT ![w].fault = fault,
                              ![w].fetched = IF fault = "none" THEN id ELSE -1]

BackendRead(w) ==
    /\ ~Crashed
    /\ pc[w] = "exec"
    /\ op[w] = "ReadRecord"
    /\ \E outcome \in {"ok", "backend", "decode"} :
        SingleRowAnswer(w, Matches(rows, recordID[w]), recordID[w], outcome)
    /\ UNCHANGED <<provider, rows, genID, budget, op, data, recordID, cursor, maxID,
                   rows0, hwm0, insertCalls, issued>>

BackendMostRecent(w) ==
    /\ ~Crashed
    /\ pc[w] = "exec"
    /\ op[w] = "ReadMostRecentRecord"
    /\ \E outcome \in {"ok", "backend", "decode"} :
        SingleRowAnswer(w, DOMAIN rows,
                        IF rows = <<>> THEN -1 ELSE MostRecentRow(rows).id, outcome)
    /\ UNCHANGED <<provider, rows, genID, budget, op, data, recordID, cursor, maxID,
                   rows0, hwm0, insertCalls, issued>>

-----------------------------------------------------------------------------
(* ReadRange *)

\* The call opens with DB.Query(SELECT ... age range) / Collection.Find(filter).
ReadRange(w) ==
    /\ Enter(w, "ReadRange")
    /\ pc' = [pc EXCEPT ![w] = "exec"]
    /\ obs' = [obs EXCEPT ![w].requests = @ + 1]
    /\ UNCHANGED <<provider, rows, genID, data, recordID, ret, cursor, maxID, rows0, hwm0,
                   insertCalls, issued>>

\* The backend answers the range query: an error, or the result set.
RangeQuery(w) ==
    /\ ~Crashed
    /\ pc[w] = "exec"
    /\ op[w] = "ReadRange"
    /\ \E backendErr \in BOOLEAN :
        IF backendErr
        THEN /\ pc' = [pc EXCEPT ![w] = "ret"]
             /\ ret' = [ret EXCEPT ![w] = FALSE]
             /\ obs' = [obs EXCEPT ![w].fault = "backend"]
             /\ cursor' = cursor
        ELSE /\ pc' = [pc EXCEPT ![w] = "iter"]
             /\ ret' = ret
             /\ obs' = obs
             /\ cursor' = [cursor EXCEPT ![w] =
                             [left |-> Cardinality(InRange(rows)), err |-> FALSE]]
    /\ UNCHANGED <<provider, rows, genID, budget, op, data, recordID, maxID, rows0,
                   hwm0, insertCalls, issued>>

\* What ReadRange returns once its loop has ended.  postgres returns true
\* without reading rows.Err(); mongo returns false when cursor.Err() is set.
RangeResult(p, iterationFailed) == IF p = "postgres" THEN TRUE ELSE ~iterationFailed

\* One evaluation of the loop condition rows.Next() / cursor.Next(ctx),
\* followed by the loop body (Scan and Unmarshal / Decode) when it delivers
\* a row, and by the code after the loop when it returns false.  Next
\* returns false at the end of the result set and also when the iteration
\* fails; the failure is kept for rows.Err() / cursor.Err().
RangeNext(w) ==
    /\ ~Crashed
    /\ pc[w] = "iter"
    /\ \E outcome \in (IF cursor[w].left > 0 THEN {"row", "decode"} ELSE {"end"})
                          \cup {"itererr"} :
        CASE outcome = "row" ->
                /\ pc' = pc
                /\ ret' = ret
                /\ cursor' = [cursor EXCEPT ![w].left = @ - 1]
                /\ obs' = [obs EXCEPT ![w].scanned = @ + 1]
          [] outcome = "decode" ->
                /\ pc' = [pc EXCEPT ![w] = "ret"]
                /\ ret' = [ret EXCEPT ![w] = FALSE]
                /\ cursor' = cursor
                /\ obs' = [obs EXCEPT ![w].fault = "decode"]
          [] outcome = "end" ->
                /\ pc' = [pc EXCEPT ![w] = "ret"]
                /\ ret' = [ret EXCEPT ![w] = RangeResult(provider, FALSE)]
                /\ cursor' = cursor
                /\ obs' = obs
          [] outcome = "itererr" ->
                /\ pc' = [pc EXCEPT ![w] = "ret"]
                /\ ret' = [ret EXCEPT ![w] = RangeResult(provider, TRUE)]
                /\ cursor' = [cursor EXCEPT ![w].err = TRUE]
                /\ obs' = [obs EXCEPT ![w].fault = "iter"]
    /\ UNCHANGED <<provider, rows, genID, budget, op, data, recordID, maxID, rows0,
                   hwm0, insertCalls, issued>>

-----------------------------------------------------------------------------
(* GetMaxID.  The driver calls it at startup (Init) to seed the generator;  *)
(* the action is the call a later startup makes on the backend this run    *)
(* leaves behind, once the budget is spent and every worker has returned.  *)

DriverGetMaxID ==
    /\ budget = 0
    /\ \A w \in Workers : pc[w] = "idle"
    /\ \E reachable \in BOOLEAN : maxID' = GetMaxID(provider, rows, reachable)
    /\ UNCHANGED <<provider, rows, genID, budget, pc, op, data, recordID, ret, cursor,
                   obs, rows0, hwm0, insertCalls, issued>>

-----------------------------------------------------------------------------

Next ==
    \/ \E w \in Workers : InsertRecord(w)
    \/ \E w \in Workers : BackendInsert(w)
    \/ \E w \in Workers : UpdateRecord(w)
    \/ \E w \in Workers : BackendUpdate(w)
    \/ \E w \in Workers : ReadRecord(w)
    \/ \E w \in Workers : BackendRead(w)
    \/ \E w \in Workers : ReadRange(w)
    \/ \E w \in Workers : RangeQuery(w)
    \/ \E w \in Workers : RangeNext(w)
    \/ \E w \in Workers : ReadMostRecentRecord(w)
    \/ \E w \in Workers : BackendMostRecent(w)
    \/ \E w \in Workers : Timeout(w)
    \/ \E w \in Workers : Return(w)
    \/ DriverGetMaxID

Spec == Init /\ [][Next]_vars

-----------------------------------------------------------------------------
(* Properties *)

ReadOnlyOps == {"ReadRecord", "ReadRange", "ReadMostRecentRecord"}

\* Worker w is at the return of operation o.
Returned(w, o) == op[w] = o /\ pc[w] = "ret"

\* C1: every InsertRecord call invokes GetNew exactly once, whether it goes
\* on to return true or false; it has persisted exactly one entity when it
\* returns true and none when it returns false; after n InsertRecord calls
\* the generator has issued exactly n identifiers.
C1_InsertIssuesOneIdentifier ==
    /\ issued = insertCalls
    /\ \A w \in Workers :
        /\ op[w] = "InsertRecord" => obs[w].newCalls = 1
        /\ op[w] # "InsertRecord" => obs[w].newCalls = 0
        /\ Returned(w, "InsertRecord") => obs[w].wrote = (IF ret[w] THEN 1 ELSE 0)

\* Two InsertRecord calls are at their return, one with true and one with
\* false, and two identifiers have been issued.
C1_Witness ==
    /\ issued = 2
    /\ \E w, v \in Workers :
        /\ Returned(w, "InsertRecord") /\ ret[w]
        /\ Returned(v, "InsertRecord") /\ ~ret[v] /\ obs[v].fault = "backend"

\* C2: every error arising during a call of one of the five operations (a
\* backend error, a timeout, a serialization or deserialization failure, an
\* iteration failure, no row found) ends in the operation returning false,
\* and none reaches a panic of the worker.  (The empty population of
\* GetExisting is left to C8.)
C2_ErrorsBecomeFalse ==
    \A w \in Workers :
        obs[w].fault \notin {"none", "emptypop"} =>
            /\ pc[w] # "panicked"
            /\ pc[w] = "ret" => ~ret[w]

\* C3: UpdateRecord returns false whenever no persisted entity matches the
\* identifier sampled from a non-empty population, and returns true only
\* when exactly one matching entity had its balance set.
C3_UpdateFailsWithoutMatch ==
    \A w \in Workers :
        (Returned(w, "UpdateRecord") /\ ~obs[w].emptyPop) =>
            /\ obs[w].matched = 0 => ~ret[w]
            /\ ret[w] => obs[w].matched = 1

\* C4: every backend request is bounded by a per-call timeout: while a call
\* waits for the backend, the expiry of its deadline can end it.
C4_EveryRequestHasDeadline ==
    \A w \in Workers : pc[w] = "exec" => ENABLED Timeout(w)

\* The case of C5: the run started on an empty backend with the generator
\* at 0, a single worker has made every call, and each of the k >= 1
\* InsertRecord calls made so far has persisted its entity.
C5_Scenario ==
    /\ rows0 = <<>>
    /\ hwm0 = 0
    /\ insertCalls >= 1
    /\ Len(rows) = insertCalls
    /\ \E w \in Workers : \A v \in Workers \ {w} : op[v] = "none"

\* C5: in that case GetMaxID of either provider returns (k, nil), and a
\* ReadMostRecentRecord that met no error returns true having fetched the
\* entity whose identifier is k.
C5_MaxIDAfterSequentialInserts ==
    C5_Scenario =>
        /\ GetMaxID(provider, rows, TRUE) = [val |-> insertCalls, err |-> FALSE]
        /\ PgGetMaxID(rows, TRUE) = MongoGetMaxID(rows, TRUE)
        /\ \A w \in Workers :
            Returned(w, "ReadMostRecentRecord") =>
                IF obs[w].fault = "none"
                THEN ret[w] /\ obs[w].fetched = insertCalls
                ELSE ~ret[w]

\* After two successful inserts ReadMostRecentRecord has returned true with
\* the entity of identifier 2.
C5_Witness ==
    /\ C5_Scenario
    /\ insertCalls = 2
    /\ \E w \in Workers :
        Returned(w, "ReadMostRecentRecord") /\ ret[w] /\ obs[w].fetched = 2

\* C6: for every backend state GetMaxID of both providers returns an error
\* when the backend holds no entity or cannot be reached, and otherwise
\* returns without error the maximum persisted identifier, also when that
\* maximum is 0; the two providers agree.
C6_GetMaxIDUniform ==
    \A reachable \in BOOLEAN :
        LET pg == PgGetMaxID(rows, reachable)
            mg == MongoGetMaxID(rows, reachable)
        IN  /\ pg = mg
            /\ IF ~reachable \/ rows = <<>>
               THEN pg.err
               ELSE ~pg.err /\ pg.val = MaxIdOf(rows)

\* C7: ReadRange returns false whenever an error occurred while opening,
\* iterating, scanning or decoding the result set, and true when the whole
\* result set was iterated without error.
C7_RangeFalseOnAnyError ==
    \A w \in Workers :
        Returned(w, "ReadRange") => (ret[w] <=> obs[w].fault = "none")

\* C8: when GetExisting has no population to sample, UpdateRecord and
\* ReadRecord skip the attempt: no request reaches the backend and the
\* worker does not crash.
C8_EmptyPopulationIsSkipped ==
    \A w \in Workers :
        obs[w].emptyPop => pc[w] # "panicked" /\ obs[w].requests = 0

\* C9: the identifiers persisted in the backend are pairwise distinct, for
\* every interleaving of the workers' InsertRecord calls.
C9_PersistedIdsDistinct ==
    \A i, j \in DOMAIN rows : i # j => rows[i].id # rows[j].id

\* Both workers have returned true from InsertRecord calls that overlapped.
C9_Witness ==
    /\ \A w \in Workers : Returned(w, "InsertRecord") /\ ret[w]
    /\ Len(rows) = Len(rows0) + 2

\* The step is taken by worker w.
Acts(w) ==
    <<pc[w], op[w], obs[w], cursor[w], ret[w], recordID[w], data[w]>>
        # <<pc'[w], op'[w], obs'[w], cursor'[w], ret'[w], recordID'[w], data'[w]>>

\* The operation the step of worker w belongs to.
OpOfStep(w) == IF pc[w] = "idle" THEN op'[w] ELSE op[w]

SameIdentifiers ==
    /\ Len(rows') = Len(rows)
    /\ \A i \in DOMAIN rows : rows'[i].id = rows[i].id

\* C10: no step of ReadRecord, ReadRange, ReadMostRecentRecord or GetMaxID
\* changes the persisted entities or the generator's issued count; no step
\* of UpdateRecord calls GetNew, adds or removes an entity or changes an
\* identifier; only a step of InsertRecord advances the issued count or
\* adds an entity.
C10_FrameEffects ==
    [][ /\ \A w \in Workers :
            Acts(w) =>
              /\ OpOfStep(w) \in ReadOnlyOps =>
                    rows' = rows /\ genID' = genID /\ issued' = issued
              /\ OpOfStep(w) = "UpdateRecord" =>
                    SameIdentifiers /\ genID' = genID /\ issued' = issued
        /\ maxID' # maxID => rows' = rows /\ genID' = genID /\ issued' = issued
        /\ (genID' # genID \/ issued' # issued \/ Len(rows') # Len(rows)) =>
              \E w \in Workers : Acts(w) /\ OpOfStep(w) = "InsertRecord"
      ]_vars

\* An UpdateRecord that set the balance of one entity and a read that
\* fetched an entity have both returned.
C10_Witness ==
    /\ \E w, v \in Workers :
        /\ Returned(w, "UpdateRecord") /\ ret[w] /\ obs[w].matched = 1
        /\ Returned(v, "ReadRecord") /\ ret[v]
    /\ \E i \in DOMAIN rows : rows[i].balance = "updated"

====
